---- MODULE Spec2Model ----
(***************************************************************************)
(* Device management commands of the openitool backend                     *)
(* (src/backend/src/device_management/device.rs):                          *)
(*   install_ipcc             - identity check, then the external installer *)
(*   check_installing_succeed - log-pattern match raced against a timeout   *)
(*   check_device             - presence-event monitor                      *)
(* Each command is checked under its own specification (InstallSpec,       *)
(* RaceSpec / FairRaceSpec, MonitorSpec); they share the device, the       *)
(* notification sink (window.emit) and the log.                            *)
(***************************************************************************)
EXTENDS Integers, Sequences, FiniteSets, TLC

VARIABLES
    attached,           \* the device on the bus, or NoDevice
    emitted,            \* window.emit calls, in order: <<event name, payload>>
    logs,               \* log::info!/warn!/error! entries written so far
    panicked,           \* a panic (unwrap on Err) has happened
    \* install_ipcc
    ipcc_caller,        \* the calling thread: "idle" | "returned"
    ipcc_pc,            \* the spawned thread's position
    device_model,       \* argument: expected model
    ios_ver,            \* argument: expected firmware version
    device_client,      \* handle captured by the spawned closure
    connected_model,    \* local of the closure
    connected_ios_ver,  \* local of the closure
    installer_calls,    \* calls of install_from_path_with_callback
    install_result,     \* "none" | "ok" | "err": what that call returned
    queries_made,       \* get_value calls of the spawned thread
    model_seen_on,      \* what was attached when the model was queried
    version_seen_on,    \* what was attached when the version was queried
    progress_seen,      \* progress messages delivered to the callback
    \* check_installing_succeed
    cis_pc,             \* "idle" | "returned"
    filter,             \* "None" | "Active" | "Consumed"
    race,               \* "Idle" | "Armed" | "Resolved"
    outcome,            \* "none" | "Matched" | "TimedOut"
    timer,              \* "off" | "running" | "cancelled" | "elapsed"
    elapsed,            \* seconds since the race was armed
    pending_cb,         \* callback the library has still to invoke
    matched_fired,      \* invocations of the matched callback
    timed_out_fired,    \* invocations of the timed-out callback
    timed_out_at,       \* value of elapsed when the timed-out callback ran
    match_at,           \* value of elapsed when the match resolved the race
    lines_seen,         \* log lines delivered so far
    \* check_device
    mon_pc,             \* "idle" | "subscribed" | "dead"
    subscribe_result,   \* "none" | "ok" | "err": what event_subscribe returned
    events,             \* presence events not yet handled
    events_made,        \* presence events produced so far
    handled             \* presence events handled so far, in order

envVars  == <<attached, emitted, logs, panicked>>
ipccVars == <<ipcc_caller, ipcc_pc, device_model, ios_ver, device_client,
              connected_model, connected_ios_ver, installer_calls,
              install_result, queries_made, model_seen_on, version_seen_on,
              progress_seen>>
raceVars == <<cis_pc, filter, race, outcome, timer, elapsed, pending_cb,
              matched_fired, timed_out_fired, timed_out_at, match_at,
              lines_seen>>
monVars  == <<mon_pc, subscribe_result, events, events_made, handled>>
vars     == <<envVars, ipccVars, raceVars, monVars>>

----------------------------------------------------------------------------
(* Bounds *)
MaxProgress == 2        \* progress messages one installer run delivers
MaxLogLines == 2        \* log lines delivered to one race
MaxSlack    == 2        \* seconds the clock may run past the deadline
MaxEvents   == 4        \* presence events of one monitoring session

----------------------------------------------------------------------------
(* The device and its attributes *)
NoDevice == "none"
Devices  == {"d1", "d2"}

\* DeviceKeys::ProductType / DeviceKeys::ProductVersion of each device
ProductType(d)    == IF d = "d1" THEN "iPhone12,1" ELSE "iPhone13,2"
ProductVersion(d) == "17.0"

\* identities a caller may pass ("" is what an empty String argument is)
ExpectedModels   == {"", "iPhone12,1", "iPhone13,2"}
ExpectedVersions == {"", "17.0", "17.1"}

None    == <<>>
Some(v) == <<v>>

\* DeviceClient::new().and_then(|c| c.get_first_device().ok_or(DeviceNotFound))
\* clientOk: DeviceClient::new() succeeded
GetFirstDevice(clientOk) ==
    IF clientOk /\ attached # NoDevice THEN Some(attached) ELSE None

\* device_info.get_value(key, DeviceDomains::All): the outcomes the query can
\* have through handle h; it fails when the device of the handle is gone, and
\* may fail on an attached device
GetValueOutcomes(h, key) ==
    LET v == IF key = "ProductType" THEN ProductType(h) ELSE ProductVersion(h)
    IN  IF attached = h THEN {Some(v), None} ELSE {None}

\* Result::unwrap_or_default on a String
UnwrapOrDefault(o) == IF o = None THEN "" ELSE o[1]

\* window.emit(name, payload).ok()
Emit(name, payload) == emitted' = Append(emitted, <<name, payload>>)

Log(entry) == logs' = logs \cup {entry}

----------------------------------------------------------------------------
(* Environment: the device is plugged and unplugged at any time *)
\* a subscribed monitor is sent the matching presence event
Notify(event) ==
    IF mon_pc = "subscribed"
    THEN /\ events_made < MaxEvents
         /\ events' = Append(events, event)
         /\ events_made' = events_made + 1
    ELSE UNCHANGED <<events, events_made>>

Plug(d) ==
    /\ attached = NoDevice
    /\ attached' = d
    /\ Notify("Connect")
    /\ UNCHANGED <<emitted, logs, panicked, ipccVars, raceVars, mon_pc,
                   subscribe_result, handled>>

Unplug ==
    /\ attached # NoDevice
    /\ attached' = NoDevice
    /\ Notify("Disconnect")
    /\ UNCHANGED <<emitted, logs, panicked, ipccVars, raceVars, mon_pc,
                   subscribe_result, handled>>

----------------------------------------------------------------------------
(* install_ipcc *)

\* Progress messages are property lists: a sequence of <<key, value>> fields.
\* A string is the sequence of its words, so that "Status" is a proper
\* substring of "StatusCompletedByUser".
Str(words) == words
Field(k, v) == <<k, v>>
ProgressMessages ==
    { <<Field(Str(<<"Status">>), Str(<<"Completed">>))>>,
      <<Field(Str(<<"PercentComplete">>), Str(<<"100">>)),
        Field(Str(<<"Status">>), Str(<<"Completed">>))>>,
      <<Field(Str(<<"Status">>), Str(<<"Installing">>))>>,
      <<Field(Str(<<"Status">>), Str(<<"Completed", "ByUser">>))>>,
      <<Field(Str(<<"Status", "Completed", "ByUser">>), Str(<<"true">>))>>,
      <<Field(Str(<<"Description">>), Str(<<"Completed">>))>>,
      <<Field(Str(<<"PercentComplete">>), Str(<<"50">>))>> }

\* RecursiveFind::rfind(key): the value of the field named key, if any
rfind(msg, key) ==
    LET hits == {i \in 1..Len(msg) : msg[i][1] = key}
    IN  IF hits = {} THEN None
        ELSE Some(msg[CHOOSE i \in hits : \A j \in hits : i <= j][2])

\* substring test on strings, used by the variants below
Contains(str, word) == \E i \in 1..Len(str) : str[i] = word

\* variant: a substring test in place of the exact comparison
ProgressCompletedSubstring(status) ==
    \E i \in 1..Len(status) :
        Contains(status[i][1], "Completed") \/ Contains(status[i][2], "Completed")

\* the progress closure's condition:
\* status.rfind("Status").is_some_and(|s| &s == "Completed")
ProgressCompleted(status) ==
    LET r == rfind(status, Str(<<"Status">>))
    IN  r # None /\ r[1] = Str(<<"Completed">>)

\* variant: the no-device arm spawns the install thread all the same
NoDeviceArmSpawns(res) == TRUE

\* match device_client_res { Ok(device_client) => spawn, Err(_) => report }
SpawnsThread(res) == res # None

\* variant: the caller waits for the work it started
CallerJoinsThread(res) == IF res = None THEN "returned" ELSE "blocked"

\* std::thread::spawn(..) is not joined: the command returns at once
CallerAfterSpawn(res) == "returned"

\* install_ipcc on the calling thread
InstallIpcc(model, ver, clientOk) ==
    LET device_client_res == GetFirstDevice(clientOk) IN
    /\ ipcc_caller = "idle"
    /\ device_model' = model
    /\ ios_ver' = ver
    /\ IF SpawnsThread(device_client_res)
       THEN /\ device_client' = IF device_client_res = None THEN NoDevice
                                 ELSE device_client_res[1]
            /\ ipcc_pc' = "query_model"
            /\ UNCHANGED <<emitted, logs>>
       ELSE /\ Log("Failed to initialize device client")
            /\ Emit("carrier_bundle_install_status", FALSE)
            /\ UNCHANGED <<device_client, ipcc_pc>>
    /\ ipcc_caller' = CallerAfterSpawn(device_client_res)
    /\ UNCHANGED <<attached, panicked, connected_model, connected_ios_ver,
                   installer_calls, install_result, queries_made, model_seen_on,
                   version_seen_on,
                   progress_seen, raceVars, monVars>>

\* connected_model = get_value(ProductType, All).unwrap_or_default()
QueryModel ==
    /\ ipcc_pc = "query_model"
    /\ \E r \in GetValueOutcomes(device_client, "ProductType") :
          connected_model' = UnwrapOrDefault(r)
    /\ queries_made' = queries_made + 1
    /\ model_seen_on' = attached
    /\ ipcc_pc' = "query_version"
    /\ UNCHANGED <<envVars, ipcc_caller, device_model, ios_ver, device_client,
                   connected_ios_ver, installer_calls, install_result,
                   version_seen_on, progress_seen, raceVars, monVars>>

\* connected_ios_ver = get_value(ProductVersion, All).unwrap_or_default()
QueryVersion ==
    /\ ipcc_pc = "query_version"
    /\ \E r \in GetValueOutcomes(device_client, "ProductVersion") :
          connected_ios_ver' = UnwrapOrDefault(r)
    /\ queries_made' = queries_made + 1
    /\ version_seen_on' = attached
    /\ ipcc_pc' = "compare"
    /\ UNCHANGED <<envVars, ipcc_caller, device_model, ios_ver, device_client,
                   connected_model, installer_calls, install_result,
                   model_seen_on, progress_seen, raceVars, monVars>>

\* variant: both attributes must differ for a mismatch
IdentityMismatchBoth(em, ev, cm, cv) == em # cm /\ ev # cv

\* device_model != connected_model || ios_ver != connected_ios_ver
IdentityMismatch(em, ev, cm, cv) == em # cm \/ ev # cv

\* the identity check and, when it passes, the call of
\* install_from_path_with_callback
CompareAndInstall ==
    /\ ipcc_pc = "compare"
    /\ IF IdentityMismatch(device_model, ios_ver, connected_model, connected_ios_ver)
       THEN /\ Log("Model or iOS version mismatch")
            /\ Emit("carrier_bundle_install_status", FALSE)
            /\ ipcc_pc' = "finished"
            /\ UNCHANGED installer_calls
       ELSE /\ installer_calls' = installer_calls + 1
            /\ ipcc_pc' = "installing"
            /\ UNCHANGED <<emitted, logs>>
    /\ UNCHANGED <<attached, panicked, ipcc_caller, device_model, ios_ver,
                   device_client, connected_model, connected_ios_ver,
                   install_result, queries_made, model_seen_on,
                   version_seen_on, progress_seen, raceVars,
                   monVars>>

\* the installer delivers one progress message to the closure
InstallerProgress(status) ==
    /\ ipcc_pc = "installing"
    /\ Len(progress_seen) < MaxProgress
    /\ progress_seen' = Append(progress_seen, status)
    /\ IF ProgressCompleted(status)
       THEN Emit("carrier_bundle_install_status", TRUE)
       ELSE UNCHANGED emitted
    /\ UNCHANGED <<attached, logs, panicked, ipcc_caller, ipcc_pc, device_model,
                   ios_ver, device_client, connected_model, connected_ios_ver,
                   installer_calls, install_result, queries_made, model_seen_on,
                   version_seen_on, raceVars,
                   monVars>>

\* variant: the Err arm reports a failure
InstallErrPayloadNegative == FALSE

\* payload emitted when install_from_path_with_callback returns Err
InstallErrPayload == TRUE

\* install_from_path_with_callback returns
InstallerReturn(ok) ==
    /\ ipcc_pc = "installing"
    /\ IF ok
       THEN /\ Log("IPCC installation started")
            /\ install_result' = "ok"
            /\ UNCHANGED emitted
       ELSE /\ Log("Installation failed")
            /\ Emit("carrier_bundle_install_status", InstallErrPayload)
            /\ install_result' = "err"
    /\ ipcc_pc' = "finished"
    /\ UNCHANGED <<attached, panicked, ipcc_caller, device_model, ios_ver,
                   device_client, connected_model, connected_ios_ver,
                   installer_calls, queries_made, model_seen_on,
                   version_seen_on, progress_seen, raceVars,
                   monVars>>

----------------------------------------------------------------------------
(* check_installing_succeed *)

TimeoutSecs == 40

\* Regex::new(r"/\b\w*SIM is Ready\w*\b/i"): the pattern, token by token.
\* The slashes and the trailing i are literals of the pattern.
SimReadyPattern ==
    <<"/", "\\b", "\\w*", "SIM is Ready", "\\w*", "\\b", "/", "i">>

\* Regex::new fails on a pattern that does not parse
RegexNew(pattern) ==
    \A k \in 1..Len(pattern) : pattern[k] \notin {"(", "[", "\\"}

\* A log line is a sequence of the tokens "/", " ", "i", "x" (any other word
\* character), "SIM is Ready" and "sim is ready".
IsWordChar(tok) == tok \in {"i", "x"}

\* the character on either edge of the token is a word character
HasWordEdge(line, k) == k \in 1..Len(line) /\ line[k] \notin {"/", " "}

\* \b holds before position k
AtBoundary(line, k) == HasWordEdge(line, k - 1) # HasWordEdge(line, k)

RECURSIVE MatchFrom(_, _, _, _)
\* the pattern from token pi on matches the line from position lj on
MatchFrom(pattern, pi, line, lj) ==
    IF pi > Len(pattern) THEN TRUE
    ELSE IF pattern[pi] = "\\b"
         THEN AtBoundary(line, lj) /\ MatchFrom(pattern, pi + 1, line, lj)
    ELSE IF pattern[pi] = "\\w*"
         THEN \E n \in 0..(Len(line) + 1 - lj) :
                /\ \A m \in lj..(lj + n - 1) : IsWordChar(line[m])
                /\ MatchFrom(pattern, pi + 1, line, lj + n)
    ELSE /\ lj <= Len(line)
         /\ line[lj] = pattern[pi]
         /\ MatchFrom(pattern, pi + 1, line, lj + 1)

\* Regex::is_match: an unanchored search
IsMatch(pattern, line) ==
    \E start \in 1..(Len(line) + 1) : MatchFrom(pattern, 1, line, start)

LogLines ==
    { <<"x", " ", "SIM is Ready">>,
      <<"/", "SIM is Ready", "/", "i">>,
      <<"x", " ", "/", "x", "SIM is Ready", "x", "/", "i", " ">>,
      <<"/", "sim is ready", "/", "i">> }

\* payloads of the two closures
MatchedPayload == TRUE

\* variant: the timed-out closure reports success
TimedOutPayloadPositive == TRUE

TimedOutPayload == FALSE

\* variant: the failure report is not conditional on the result
ReportsAfterMonitoring(armOk) == TRUE

\* if let Err(e) = syslog_client.log_to_custom_with_timeout_or_else(..)
ReportsMonitoringError(armOk) == ~armOk

\* check_installing_succeed up to the return of
\* log_to_custom_with_timeout_or_else; armOk: the library armed the race
CheckInstallingSucceed(clientOk, armOk) ==
    LET device_client_res == GetFirstDevice(clientOk) IN
    /\ cis_pc = "idle"
    /\ IF device_client_res = None
       THEN /\ Log("Failed to initialize device client")
            /\ Emit("installation_succeed_status", FALSE)
            /\ cis_pc' = "returned"
            /\ UNCHANGED <<filter, race, timer>>
       ELSE IF ~RegexNew(SimReadyPattern)
       THEN /\ Log("Failed to create a new regex")
            /\ Emit("installation_succeed_status", FALSE)
            /\ cis_pc' = "returned"
            /\ UNCHANGED <<filter, race, timer>>
       ELSE /\ IF armOk
               THEN /\ filter' = "Active"
                    /\ race' = "Armed"
                    /\ timer' = "running"
                    /\ cis_pc' = "monitoring"
               ELSE /\ cis_pc' = "returned"
                    /\ UNCHANGED <<filter, race, timer>>
            /\ IF ReportsMonitoringError(armOk)
               THEN /\ Log("Syslog monitoring failed")
                    /\ Emit("installation_succeed_status", FALSE)
               ELSE UNCHANGED <<emitted, logs>>
    /\ UNCHANGED <<attached, panicked, ipccVars, outcome, elapsed, pending_cb,
                   matched_fired, timed_out_fired, timed_out_at, match_at,
                   lines_seen, monVars>>

\* one second passes
Tick ==
    /\ race # "Idle"
    /\ elapsed < TimeoutSecs + MaxSlack
    /\ elapsed' = elapsed + 1
    /\ UNCHANGED <<envVars, ipccVars, cis_pc, filter, race, outcome, timer,
                   pending_cb, matched_fired, timed_out_fired, timed_out_at,
                   match_at, lines_seen, monVars>>

\* variant: a match leaves the timer running
TimerKeepsRunning(t) == t

\* Match transition: cancels the timer
TimerAfterMatch(t) == "cancelled"

\* variant: the filter stays subscribed after its first match
FilterStaysActive(f) == f

\* OneShot: the filter deactivates itself on its first match
FilterAfterMatch(f) == "Consumed"

\* the log stream delivers a line; an Active filter is run on it
LogLine(line) ==
    /\ filter \in {"Active", "Consumed"}
    /\ Len(lines_seen) < MaxLogLines
    /\ lines_seen' = Append(lines_seen, line)
    /\ IF filter = "Active" /\ IsMatch(SimReadyPattern, line)
       THEN /\ race' = "Resolved"
            /\ outcome' = "Matched"
            /\ timer' = TimerAfterMatch(timer)
            /\ filter' = FilterAfterMatch(filter)
            /\ pending_cb' = "matched"
            /\ match_at' = IF match_at = -1 THEN elapsed ELSE match_at
       ELSE UNCHANGED <<race, outcome, timer, filter, pending_cb, match_at>>
    /\ UNCHANGED <<envVars, ipccVars, cis_pc, elapsed, matched_fired,
                   timed_out_fired, timed_out_at, monVars>>

\* variant: the timer may fire at once
TimerDueAtOnce(e) == e >= 0

\* the timer runs for Duration::from_secs(40)
TimerDue(e) == e >= TimeoutSecs

\* Timeout transition: the running timer elapses and unsubscribes the filter
TimerElapse ==
    /\ timer = "running"
    /\ TimerDue(elapsed)
    /\ timer' = "elapsed"
    /\ race' = "Resolved"
    /\ outcome' = IF outcome = "none" THEN "TimedOut" ELSE outcome
    /\ filter' = "Consumed"
    /\ pending_cb' = "timed_out"
    /\ UNCHANGED <<envVars, ipccVars, cis_pc, elapsed, matched_fired,
                   timed_out_fired, timed_out_at, match_at, lines_seen,
                   monVars>>

\* the first closure: move |_| { info!; window_1.emit(.., true) }
MatchedCallback ==
    /\ pending_cb = "matched"
    /\ Log("SIM ready detected")
    /\ Emit("installation_succeed_status", MatchedPayload)
    /\ matched_fired' = matched_fired + 1
    /\ pending_cb' = "none"
    /\ UNCHANGED <<attached, panicked, ipccVars, cis_pc, filter, race, outcome,
                   timer, elapsed, timed_out_fired, timed_out_at, match_at,
                   lines_seen, monVars>>

\* the second closure: move || { warn!; window_2.emit(.., false) }
TimedOutCallback ==
    /\ pending_cb = "timed_out"
    /\ Log("SIM ready not detected within 40s")
    /\ Emit("installation_succeed_status", TimedOutPayload)
    /\ timed_out_fired' = timed_out_fired + 1
    /\ timed_out_at' = elapsed
    /\ pending_cb' = "none"
    /\ UNCHANGED <<attached, panicked, ipccVars, cis_pc, filter, race, outcome,
                   timer, elapsed, matched_fired, match_at, lines_seen,
                   monVars>>

----------------------------------------------------------------------------
(* check_device *)

AttributeEvents ==
    <<"device_hardware", "device_storage", "device_battery", "device_os">>

\* the attribute queries that fail during one Connect handler
FailureSets ==
    {{}} \cup {{a} : a \in 1..Len(AttributeEvents)} \cup {1..Len(AttributeEvents)}

\* handle_device_hardware / _storage / _battery / _os (&device_client): the
\* summary read through the handle, or "unavailable" when the query fails
HandleDeviceAttribute(client, failed) ==
    IF failed THEN [available |-> FALSE, device |-> NoDevice]
    ELSE [available |-> TRUE, device |-> client]

\* the four window.emit calls of the Connect arm, in order
AttributeEmits(client, failures) ==
    [a \in 1..Len(AttributeEvents) |->
        <<AttributeEvents[a], HandleDeviceAttribute(client, a \in failures)>>]

\* variant: the monitor starts by reporting a device
InitialPresencePositive == TRUE

\* window.emit("device_status", false) before subscribing
InitialPresence == FALSE

\* event_subscribe(..).unwrap(): an Err panics
SubscribeErrorPanics == TRUE

\* variant: a pairing is reported like a connection
PairEmitsPresence == << <<"device_status", TRUE>> >>

\* Event::Pair => {}
PairEmits == <<>>

\* check_device: the initial notification and event_subscribe(..).unwrap()
CheckDevice(subscribeOk) ==
    /\ mon_pc = "idle"
    /\ Emit("device_status", InitialPresence)
    /\ IF subscribeOk
       THEN /\ mon_pc' = "subscribed"
            /\ subscribe_result' = "ok"
            /\ UNCHANGED panicked
       ELSE \* .unwrap() on Err
            /\ mon_pc' = "dead"
            /\ subscribe_result' = "err"
            /\ panicked' = SubscribeErrorPanics
    /\ UNCHANGED <<attached, logs, ipccVars, raceVars, events, events_made,
                   handled>>

\* the transport reports a pairing of the attached device
PairEvent ==
    /\ mon_pc = "subscribed"
    /\ attached # NoDevice
    /\ Notify("Pair")
    /\ UNCHANGED <<envVars, ipccVars, raceVars, mon_pc, subscribe_result,
                   handled>>

\* the closure passed to event_subscribe, run on the next presence event
HandleEvent(clientOk, failures) ==
    /\ mon_pc = "subscribed"
    /\ events # <<>>
    /\ events' = Tail(events)
    /\ handled' = Append(handled, Head(events))
    /\ IF Head(events) = "Connect"
       THEN LET device_client_res == GetFirstDevice(clientOk) IN
            /\ Log("device connected")
            /\ IF device_client_res = None
               THEN \* .unwrap() on Err
                    /\ emitted' = Append(emitted, <<"device_status", TRUE>>)
                    /\ panicked' = TRUE
                    /\ mon_pc' = "dead"
               ELSE /\ emitted' = Append(emitted, <<"device_status", TRUE>>)
                                    \o AttributeEmits(device_client_res[1], failures)
                    /\ UNCHANGED <<panicked, mon_pc>>
       ELSE IF Head(events) = "Disconnect"
       THEN /\ Log("device disconnected")
            /\ Emit("device_status", FALSE)
            /\ UNCHANGED <<panicked, mon_pc>>
       ELSE /\ emitted' = emitted \o PairEmits
            /\ UNCHANGED <<logs, panicked, mon_pc>>
    /\ UNCHANGED <<attached, ipccVars, raceVars, subscribe_result, events_made>>

----------------------------------------------------------------------------
Init ==
    /\ attached \in Devices \cup {NoDevice}
    /\ emitted = <<>>
    /\ logs = {}
    /\ panicked = FALSE
    /\ ipcc_caller = "idle"
    /\ ipcc_pc = "not_spawned"
    /\ device_model = ""
    /\ ios_ver = ""
    /\ device_client = NoDevice
    /\ connected_model = ""
    /\ connected_ios_ver = ""
    /\ installer_calls = 0
    /\ install_result = "none"
    /\ queries_made = 0
    /\ model_seen_on = NoDevice
    /\ version_seen_on = NoDevice
    /\ progress_seen = <<>>
    /\ cis_pc = "idle"
    /\ filter = "None"
    /\ race = "Idle"
    /\ outcome = "none"
    /\ timer = "off"
    /\ elapsed = 0
    /\ pending_cb = "none"
    /\ matched_fired = 0
    /\ timed_out_fired = 0
    /\ timed_out_at = 0
    /\ match_at = -1
    /\ lines_seen = <<>>
    /\ mon_pc = "idle"
    /\ subscribe_result = "none"
    /\ events = <<>>
    /\ events_made = 0
    /\ handled = <<>>

\* install_ipcc, its spawned thread, the installer and the device
InstallNext ==
    \/ \E d \in Devices : Plug(d)
    \/ Unplug
    \/ \E m \in ExpectedModels, v \in ExpectedVersions, clientOk \in BOOLEAN :
          InstallIpcc(m, v, clientOk)
    \/ QueryModel
    \/ QueryVersion
    \/ CompareAndInstall
    \/ \E status \in ProgressMessages : InstallerProgress(status)
    \/ \E ok \in BOOLEAN : InstallerReturn(ok)

InstallSpec == Init /\ [][InstallNext]_vars

\* check_installing_succeed, the log stream, the timer and the clock
RaceNext ==
    \/ \E clientOk \in BOOLEAN, armOk \in BOOLEAN :
          CheckInstallingSucceed(clientOk, armOk)
    \/ Tick
    \/ \E line \in LogLines : LogLine(line)
    \/ TimerElapse
    \/ MatchedCallback
    \/ TimedOutCallback

RaceSpec == Init /\ [][RaceNext]_vars

\* check_device, its event handler and the device
MonitorNext ==
    \/ \E d \in Devices : Plug(d)
    \/ Unplug
    \/ PairEvent
    \/ \E subscribeOk \in BOOLEAN : CheckDevice(subscribeOk)
    \/ \E clientOk \in BOOLEAN, failures \in FailureSets :
          HandleEvent(clientOk, failures)

MonitorSpec == Init /\ [][MonitorNext]_vars

\* the clock advances, the timer thread runs and a callback that is due is
\* invoked
FairRaceSpec ==
    /\ RaceSpec
    /\ WF_vars(Tick)
    /\ WF_vars(TimerElapse)
    /\ WF_vars(MatchedCallback)
    /\ WF_vars(TimedOutCallback)

----------------------------------------------------------------------------
(* Properties of install_ipcc, checked under InstallSpec *)

CountEmitted(name) ==
    Cardinality({i \in 1..Len(emitted) : emitted[i][1] = name})

CountPayload(name, payload) ==
    Cardinality({i \in 1..Len(emitted) :
                    emitted[i][1] = name /\ emitted[i][2] = payload})

\* the invocation has nothing left to do
IpccTerminal ==
    /\ ipcc_caller = "returned"
    /\ ipcc_pc \in {"not_spawned", "finished"}

\* C2: every invocation of install_ipcc produces exactly one
\* carrier_bundle_install_status notification: never more than one at any
\* time, and one once the invocation has run to its end.
C2_ExactlyOneInstallStatus ==
    /\ CountEmitted("carrier_bundle_install_status") <= 1
    /\ IpccTerminal => CountEmitted("carrier_bundle_install_status") = 1

\* C3: when install_from_path_with_callback returns an error without having
\* started, the one notification is carrier_bundle_install_status=false, the
\* error is logged and the installer was called once.
C3_StartFailureIsNegative ==
    (install_result = "err" /\ progress_seen = <<>>) =>
        /\ emitted = << <<"carrier_bundle_install_status", FALSE>> >>
        /\ "Installation failed" \in logs
        /\ installer_calls = 1

\* C4: the installer is invoked only when the model and the version read
\* from the device both equal the expected ones; on a mismatch the thread
\* ends with the single notification carrier_bundle_install_status=false and
\* no installer call.
C4_MismatchNeverInstalls ==
    /\ installer_calls > 0 =>
          (device_model = connected_model /\ ios_ver = connected_ios_ver)
    /\ ( /\ ipcc_pc \in {"installing", "finished"}
         /\ (device_model # connected_model \/ ios_ver # connected_ios_ver) )
       => ( /\ installer_calls = 0
            /\ ipcc_pc = "finished"
            /\ emitted = << <<"carrier_bundle_install_status", FALSE>> >> )

\* expected model differs from the connected one, same version
C4_Witness ==
    /\ ipcc_pc = "finished"
    /\ device_model = "iPhone12,1" /\ connected_model = "iPhone13,2"
    /\ ios_ver = "17.0" /\ connected_ios_ver = "17.0"
    /\ installer_calls = 0
    /\ emitted = << <<"carrier_bundle_install_status", FALSE>> >>

\* C8: an invocation that found no device (no handle was captured) has
\* reported carrier_bundle_install_status=false and nothing else, made no
\* identity query and never called the installer.
C8_NoDeviceIsNegative ==
    (ipcc_caller = "returned" /\ device_client = NoDevice) =>
        /\ emitted = << <<"carrier_bundle_install_status", FALSE>> >>
        /\ "Failed to initialize device client" \in logs
        /\ ipcc_pc = "not_spawned"
        /\ queries_made = 0
        /\ installer_calls = 0

C8_Witness ==
    /\ ipcc_caller = "returned" /\ device_client = NoDevice
    /\ attached # NoDevice
    /\ emitted = << <<"carrier_bundle_install_status", FALSE>> >>

\* a field named exactly "Status" whose value is exactly "Completed"
HasStatusCompleted(msg) ==
    \E i \in 1..Len(msg) : msg[i] = << <<"Status">>, <<"Completed">> >>

\* C9: while the installer runs, the positive notifications are exactly the
\* progress messages whose Status field is exactly "Completed"; every other
\* progress message triggers no notification.
C9_OnlyExactCompleted ==
    ipcc_pc = "installing" =>
        /\ CountPayload("carrier_bundle_install_status", TRUE) =
             Cardinality({i \in 1..Len(progress_seen) :
                             HasStatusCompleted(progress_seen[i])})
        /\ CountPayload("carrier_bundle_install_status", FALSE) = 0

\* "Completed" inside another field name, then inside another value: silence
C9_Witness ==
    /\ ipcc_pc = "installing"
    /\ progress_seen = << << << <<"Status", "Completed", "ByUser">>, <<"true">> >> >>,
                          << << <<"Status">>, <<"Completed", "ByUser">> >> >> >>
    /\ emitted = <<>>

----------------------------------------------------------------------------
(* Properties of check_installing_succeed, checked under FairRaceSpec *)

CallbacksFired == matched_fired + timed_out_fired

\* the matching line came while the timer had not reached its duration
MatchedBeforeDeadline == match_at # -1 /\ match_at < TimeoutSecs

MatchingLinesSeen ==
    {i \in 1..Len(lines_seen) : IsMatch(SimReadyPattern, lines_seen[i])}

C6_MatchBeforeDeadline ==
    /\ [](MatchedBeforeDeadline =>
            /\ outcome = "Matched"
            /\ timer = "cancelled"
            /\ filter = "Consumed"
            /\ pending_cb # "timed_out"
            /\ timed_out_fired = 0
            /\ matched_fired <= 1
            /\ CountPayload("installation_succeed_status", FALSE) = 0)
    /\ (MatchedBeforeDeadline ~> matched_fired = 1)

\* a second matching line came after the first, and the deadline has passed
C6_Witness ==
    /\ MatchedBeforeDeadline
    /\ Cardinality(MatchingLinesSeen) >= 2
    /\ matched_fired = 1
    /\ elapsed > TimeoutSecs

----------------------------------------------------------------------------
(* Properties of check_device, checked under MonitorSpec *)

IsPresence(i, payload) ==
    emitted[i][1] = "device_status" /\ emitted[i][2] = payload

IsAttribute(i) ==
    \E a \in 1..Len(AttributeEvents) : emitted[i][1] = AttributeEvents[a]

\* C10: every device_status=true notification is followed by the four
\* attribute notifications of its Connect event, one of each, and every
\* attribute notification is one of the four that follow a
\* device_status=true; there is one device_status=true per handled Connect.
C10_ConnectedSequence ==
    /\ \A i \in 1..Len(emitted) : IsPresence(i, TRUE) =>
          /\ i + 4 <= Len(emitted)
          /\ \A a \in 1..Len(AttributeEvents) :
                Cardinality({k \in 1..4 : emitted[i + k][1] = AttributeEvents[a]}) = 1
    /\ \A j \in 1..Len(emitted) : IsAttribute(j) =>
          \E i \in 1..(j - 1) : j - i <= 4 /\ IsPresence(i, TRUE)
    /\ CountPayload("device_status", TRUE) =
          Cardinality({i \in 1..Len(handled) : handled[i] = "Connect"})

CountHandled(event) ==
    Cardinality({i \in 1..Len(handled) : handled[i] = event})

\* C11: a failure while obtaining device data on a Connect event aborts
\* neither the handler nor the session: a subscribed monitor stays
\* subscribed without a panic, and every handled Connect has emitted each of
\* the four attribute notifications (as a summary or as unavailable).
C11_FailureDoesNotAbort ==
    /\ subscribe_result = "ok" => (mon_pc = "subscribed" /\ ~panicked)
    /\ \A a \in 1..Len(AttributeEvents) :
          CountEmitted(AttributeEvents[a]) = CountHandled("Connect")

\* the step handles a Connect event that directly follows a handled Disconnect
HandlesConnectAfterDisconnect ==
    /\ handled # <<>>
    /\ handled[Len(handled)] = "Disconnect"
    /\ handled' = Append(handled, "Connect")

\* C12: a Disconnect directly followed by a Connect yields device_status=false,
\* then device_status=true and the four attribute notifications in the same
\* step, every available summary read from the device attached when the
\* Connect was handled.
C12_DisconnectThenConnect ==
    [][HandlesConnectAfterDisconnect =>
        /\ emitted[Len(emitted)] = <<"device_status", FALSE>>
        /\ Len(emitted') = Len(emitted) + 1 + Len(AttributeEvents)
        /\ emitted'[Len(emitted) + 1] = <<"device_status", TRUE>>
        /\ \A a \in 1..Len(AttributeEvents) :
              LET n == emitted'[Len(emitted) + 1 + a] IN
              /\ n[1] = AttributeEvents[a]
              /\ n[2].available => n[2].device = attached]_vars

\* C13: handling a Disconnect appends the single notification
\* device_status=false and nothing else; handling a Pair emits nothing and
\* leaves the monitor, the device, the log and the panic flag as they were.
C13_DisconnectAndPair ==
    [][/\ handled' = Append(handled, "Disconnect") =>
            emitted' = Append(emitted, <<"device_status", FALSE>>)
       /\ handled' = Append(handled, "Pair") =>
            /\ emitted' = emitted
            /\ UNCHANGED <<attached, logs, panicked, mon_pc, subscribe_result>>]_vars

\* a Pair and then a Disconnect were handled: only the Disconnect shows
C13_Witness ==
    /\ handled = <<"Pair", "Disconnect">>
    /\ emitted = << <<"device_status", FALSE>>, <<"device_status", FALSE>> >>
    /\ mon_pc = "subscribed"

\* C14: a failed event_subscribe ends the monitoring session with an error
\* value for the caller, without a panic.
C14_SubscribeErrorIsValue ==
    subscribe_result = "err" => (mon_pc = "dead" /\ ~panicked)

----------------------------------------------------------------------------
(* Further properties of install_ipcc, checked under InstallSpec *)

\* the spawned thread exists and has not finished
ThreadAtWork ==
    ipcc_pc \in {"query_model", "query_version", "compare", "installing"}

\* C15: whenever the spawned thread still has its queries or the installer
\* call ahead of it or under way, the command has already returned to its
\* caller; the caller is never left waiting.
C15_ReturnsWithoutWaiting ==
    /\ ipcc_caller \in {"idle", "returned"}
    /\ ThreadAtWork => ipcc_caller = "returned"

\* the installer call has not returned, the caller has
C15_Witness ==
    /\ ipcc_caller = "returned"
    /\ ipcc_pc = "installing"
    /\ install_result = "none"
    /\ progress_seen = <<>>

\* the handle's device was gone when the thread first used the handle
StaleAtFirstUse == queries_made >= 1 /\ model_seen_on # device_client

\* C16: a thread that finds its handle stale at first use fails fast: it ends
\* with the single notification carrier_bundle_install_status=false, without
\* the identity comparison and without an installer call.
C16_StaleHandleFailsFast ==
    StaleAtFirstUse =>
        /\ ipcc_pc = "finished"
        /\ queries_made = 1
        /\ "Model or iOS version mismatch" \notin logs
        /\ installer_calls = 0
        /\ emitted = << <<"carrier_bundle_install_status", FALSE>> >>

\* C17: when a value read from the device takes part in the comparison, the
\* model and the version were read in the same device state.
C17_SingleSnapshot ==
    ( /\ queries_made = 2
      /\ ipcc_pc \in {"compare", "installing", "finished"}
      /\ (connected_model # "" \/ connected_ios_ver # "") ) =>
        model_seen_on = version_seen_on

\* C18: one invocation never has both carrier_bundle_install_status=false
\* and =true; a false is emitted only by an invocation that ends without an
\* installer call, and none follows an installer call.
C18_FalseAndTrueExclusive ==
    /\ ~ ( /\ CountPayload("carrier_bundle_install_status", FALSE) > 0
           /\ CountPayload("carrier_bundle_install_status", TRUE) > 0 )
    /\ installer_calls > 0 =>
          CountPayload("carrier_bundle_install_status", FALSE) = 0
    /\ CountPayload("carrier_bundle_install_status", FALSE) > 0 =>
          (IpccTerminal /\ installer_calls = 0)

\* the installer reported completion and then returned an error
C18_Witness ==
    /\ install_result = "err"
    /\ progress_seen # <<>>
    /\ CountPayload("carrier_bundle_install_status", TRUE) >= 2
    /\ CountPayload("carrier_bundle_install_status", FALSE) = 0

----------------------------------------------------------------------------
(* Further properties of check_device, checked under MonitorSpec *)

PresenceIndexes ==
    {i \in 1..Len(emitted) : emitted[i][1] = "device_status"}

\* payload of the most recent device_status notification
LastPresence ==
    emitted[CHOOSE i \in PresenceIndexes : \A j \in PresenceIndexes : j <= i][2]

NonPairIndexes == {i \in 1..Len(handled) : handled[i] # "Pair"}

\* the most recent handled event other than Pair was a Connect
LastEventConnected ==
    /\ NonPairIndexes # {}
    /\ handled[CHOOSE i \in NonPairIndexes : \A j \in NonPairIndexes : j <= i]
         = "Connect"

\* C19: check_device first emits device_status=false, once, and after any
\* handled events the latest device_status is true exactly when the latest
\* event other than Pair was a Connect.
C19_PresenceFollowsEvents ==
    mon_pc # "idle" =>
        /\ emitted[1] = <<"device_status", FALSE>>
        /\ CountPayload("device_status", FALSE) = 1 + CountHandled("Disconnect")
        /\ CountPayload("device_status", TRUE) = CountHandled("Connect")
        /\ LastPresence = LastEventConnected

\* a Pair came last, after a Disconnect and a Connect
C19_Witness ==
    /\ handled = <<"Disconnect", "Connect", "Pair">>
    /\ LastPresence = TRUE
    /\ mon_pc = "subscribed"

====
